---- MODULE Spec2Model ----
(***************************************************************************)
(* The finite automaton notebook: class State, class FiniteAutomaton       *)
(* (constructor and transition_table) and the notebook cell that builds    *)
(* the collections handed to the constructor.                              *)
(*                                                                         *)
(* A State object is a natural number (its identity); name[o] is its       *)
(* .name.  The caller's collections live in `heap`; the automaton `fa`     *)
(* holds references into the heap, because the constructor stores the      *)
(* argument objects themselves.  A set is modelled by the sequence of its  *)
(* elements in iteration order.  Printed text is a sequence of lines, each *)
(* line the sequence of the strings handed to print().                     *)
(***************************************************************************)
EXTENDS Integers, Sequences, FiniteSets, TLC

VARIABLES name, heap, fa, out, ncalls

vars == <<name, heap, fa, out, ncalls>>

\* ------------------------------------------------------------- bounds ---
\* State objects of the inputs transition_table is applied to.
NumObjs == 2
\* Entries of a transition dict drawn as an input.
MaxTrans == 1
\* Caller operations (statify, changes of a collection) in one run of the
\* notebook.
MaxCalls == 5

\* ------------------------------------------------------------- inputs ---
\* Names handed to State( name ).
Names == {"q1", "--"}

\* The names the list comprehension of the example cell runs statify over.
NamePool == <<"q1", "--">>

\* Input symbols.
Symbols == {"a", "b"}

StateObjs == 1..NumObjs

\* No automaton constructed yet.
NoFA == [states |-> "none", alphabet |-> "none", transition |-> "none",
         final |-> "none", root |-> 0]

\* --------------------------------------------------------------- State ---
\* State defines neither __eq__ nor __hash__: == is object identity.
StateEq(s, t) == s = t

\* State.__repr__
Repr(o) == name[o]

\* Keys of the transition dict are tuples ( State, Symbol ): tuples compare
\* element-wise, the State by StateEq and the symbol (a str) by value.
KeyEq(k, l) == StateEq(k[1], l[1]) /\ k[2] = l[2]

\* ----------------------------------------------------- sets and dicts ---
\* The elements of a set given by its iteration order.
Elems(q) == {q[i] : i \in 1..Len(q)}

\* The iteration orders a set of the elements S can have.
Orders(S) == {q \in [1..Cardinality(S) -> S] : \A i, j \in 1..Cardinality(S) : i # j => q[i] # q[j]}

\* state in final
InFinal(s, F) == \E t \in F : StateEq(t, s)

\* key in dict
HasKey(d, k) == \E e \in d : KeyEq(e[1], k)

\* dict[ key ]
GetItem(d, k) == (CHOOSE e \in d : KeyEq(e[1], k))[2]

\* dict[ key ] = value
SetItem(d, k, v) == {e \in d : ~KeyEq(e[1], k)} \cup {<<k, v>>}

\* del dict[ key ]
DelItem(d, k) == {e \in d : ~KeyEq(e[1], k)}

\* set.add( x ): nothing when x is in the set; otherwise the set may rehash,
\* which leaves its elements in any iteration order.
SetAdd(q, x) == IF x \in Elems(q) THEN {q} ELSE Orders(Elems(q) \cup {x})

\* set.discard( x ): the other elements keep their order.
SetDiscard(q, x) == SelectSeq(q, LAMBDA y : y # x)

\* ------------------------------------------------------- the automaton ---
\* The objects the fields of the automaton refer to.
Deref(f) == [states |-> heap[f.states], alphabet |-> heap[f.alphabet],
             transition |-> heap[f.transition], final |-> heap[f.final],
             root |-> f.root]

\* ----------------------------------------------------- transition_table ---
\* The header line: 8 spaces, then one " char " per symbol of the alphabet.
Header(A) == <<"        ">> \o [j \in 1..Len(A.alphabet) |-> " " \o A.alphabet[j] \o " "]

MarkerFinalFirst(A, state) ==
    IF InFinal(state, A.final) THEN "<- "
    ELSE IF StateEq(state, A.root) /\ InFinal(state, A.final) THEN "<->"
    ELSE IF StateEq(state, A.root) THEN "-> "
    ELSE "   "

\* The role marker of a row: the if / elif chain.
Marker(A, state) ==
    IF StateEq(state, A.root) /\ InFinal(state, A.final) THEN "<->"
    ELSE IF InFinal(state, A.final) THEN "<- "
    ELSE IF StateEq(state, A.root) THEN "-> "
    ELSE "   "

CellNoPlaceholder(A, state, char) ==
    IF HasKey(A.transition, <<state, char>>)
    THEN " " \o Repr(GetItem(A.transition, <<state, char>>)) \o " "
    ELSE " " \o Repr(state) \o " "

\* to_print for one ( state, char )
Cell(A, state, char) ==
    IF ~HasKey(A.transition, <<state, char>>)
    THEN " -- "
    ELSE " " \o Repr(GetItem(A.transition, <<state, char>>)) \o " "

CellLoopReversed(A, state) ==
    [j \in 1..Len(A.alphabet) |-> Cell(A, state, A.alphabet[Len(A.alphabet) + 1 - j])]

\* The inner loop over the alphabet: the cells of one row.
CellLoop(A, state) == [j \in 1..Len(A.alphabet) |-> Cell(A, state, A.alphabet[j])]

\* One state row: marker, " state ", cells.
Row(A, state) == <<Marker(A, state), " " \o Repr(state) \o " ">> \o CellLoop(A, state)

\* Everything one call of transition_table prints.
Table(A) == <<Header(A)>> \o [i \in 1..Len(A.states) |-> Row(A, A.states[i])]

\* The characters of a printed line, and of the whole output.
RECURSIVE Concat(_)
Concat(toks) == IF toks = <<>> THEN "" ELSE Head(toks) \o Concat(Tail(toks))

RECURSIVE Text(_)
Text(lines) == IF lines = <<>> THEN "" ELSE Concat(Head(lines)) \o "\n" \o Text(Tail(lines))

\* ------------------------------------------------------------- actions ---
\* statify( name ): a new State object.
statify ==
    /\ ncalls < MaxCalls
    /\ \E n \in Names : name' = Append(name, n)
    /\ ncalls' = ncalls + 1
    /\ UNCHANGED <<heap, fa, out>>

\* The caller adds a State to / removes it from the states collection.
states_add ==
    /\ ncalls < MaxCalls
    /\ \E o \in 1..Len(name) : \E q \in SetAdd(heap.states, o) :
          heap' = [heap EXCEPT !.states = q]
    /\ heap' # heap
    /\ ncalls' = ncalls + 1
    /\ UNCHANGED <<name, fa, out>>

states_discard ==
    /\ ncalls < MaxCalls
    /\ \E o \in Elems(heap.states) :
          heap' = [heap EXCEPT !.states = SetDiscard(heap.states, o)]
    /\ ncalls' = ncalls + 1
    /\ UNCHANGED <<name, fa, out>>

\* The caller adds a symbol to / removes it from the alphabet.
alphabet_add ==
    /\ ncalls < MaxCalls
    /\ \E c \in Symbols : \E q \in SetAdd(heap.alphabet, c) :
          heap' = [heap EXCEPT !.alphabet = q]
    /\ heap' # heap
    /\ ncalls' = ncalls + 1
    /\ UNCHANGED <<name, fa, out>>

alphabet_discard ==
    /\ ncalls < MaxCalls
    /\ \E c \in Elems(heap.alphabet) :
          heap' = [heap EXCEPT !.alphabet = SetDiscard(heap.alphabet, c)]
    /\ ncalls' = ncalls + 1
    /\ UNCHANGED <<name, fa, out>>

\* transition[ ( s, c ) ] = t and del transition[ ( s, c ) ]
transition_setitem ==
    /\ ncalls < MaxCalls
    /\ \E s \in 1..Len(name), c \in Symbols, t \in 1..Len(name) :
          heap' = [heap EXCEPT !.transition = SetItem(heap.transition, <<s, c>>, t)]
    /\ heap' # heap
    /\ ncalls' = ncalls + 1
    /\ UNCHANGED <<name, fa, out>>

transition_delitem ==
    /\ ncalls < MaxCalls
    /\ \E e \in heap.transition :
          heap' = [heap EXCEPT !.transition = DelItem(heap.transition, e[1])]
    /\ ncalls' = ncalls + 1
    /\ UNCHANGED <<name, fa, out>>

\* The caller adds a State to / removes it from the final set.
final_add ==
    /\ ncalls < MaxCalls
    /\ \E o \in 1..Len(name) : heap' = [heap EXCEPT !.final = heap.final \cup {o}]
    /\ heap' # heap
    /\ ncalls' = ncalls + 1
    /\ UNCHANGED <<name, fa, out>>

final_discard ==
    /\ ncalls < MaxCalls
    /\ \E o \in heap.final : heap' = [heap EXCEPT !.final = heap.final \ {o}]
    /\ ncalls' = ncalls + 1
    /\ UNCHANGED <<name, fa, out>>

\* FiniteAutomaton( states, alphabet, transition, final, root ): the five
\* assignments; the arguments are stored as they are, nothing is checked
\* and nothing is copied.
FiniteAutomaton ==
    /\ fa = NoFA
    /\ \E root \in 1..Len(name) :
          fa' = [states |-> "states", alphabet |-> "alphabet",
                 transition |-> "transition", final |-> "final", root |-> root]
    /\ UNCHANGED <<name, heap, out, ncalls>>

\* fa.transition_table()
transition_table ==
    /\ fa # NoFA
    /\ out' = Table(Deref(fa))
    /\ UNCHANGED <<name, heap, fa, ncalls>>

\* -------------------------------------------------------- specifications ---
\* A fresh notebook: no State created, empty collections, nothing printed.
Init ==
    /\ name = <<>>
    /\ heap = [states |-> <<>>, alphabet |-> <<>>, transition |-> {}, final |-> {}]
    /\ fa = NoFA
    /\ out = <<>>
    /\ ncalls = 0

Next ==
    \/ statify
    \/ states_add
    \/ states_discard
    \/ alphabet_add
    \/ alphabet_discard
    \/ transition_setitem
    \/ transition_delitem
    \/ final_add
    \/ final_discard
    \/ FiniteAutomaton
    \/ transition_table

Spec == Init /\ [][Next]_vars

\* The transition dicts drawn as inputs: at most MaxTrans entries, no two
\* with equal keys.
Dicts ==
    LET Entries == (StateObjs \X Symbols) \X StateObjs
    IN  {d \in SUBSET Entries :
            /\ Cardinality(d) <= MaxTrans
            /\ \A e, g \in d : KeyEq(e[1], g[1]) => e = g}

\* transition_table as a function of its input: the caller has built any
\* collections over NumObjs State objects, then constructs and prints.
InitTable ==
    /\ name = [o \in StateObjs |-> NamePool[((o - 1) % Len(NamePool)) + 1]]
    /\ \E S \in SUBSET StateObjs, C \in SUBSET Symbols, F \in SUBSET StateObjs :
       \E qs \in Orders(S), qa \in Orders(C), d \in Dicts :
          heap = [states |-> qs, alphabet |-> qa, transition |-> d, final |-> F]
    /\ fa = NoFA
    /\ out = <<>>
    /\ ncalls = 0

NextTable ==
    \/ FiniteAutomaton
    \/ transition_table

SpecTable == InitTable /\ [][NextTable]_vars

\* --------------------------------------------------------------- claims ---
\* The automaton as transition_table reads it.
Cur == Deref(fa)

\* A table has been printed.
Rendered == fa # NoFA /\ out # <<>>

\* (s, c) is a pair of the transition relation, and its target.
Defined(A, s, c) == \E e \in A.transition : e[1] = <<s, c>>

Target(A, s, c) == (CHOOSE e \in A.transition : e[1] = <<s, c>>)[2]

\* Invariants 1-3 of the data model: root in states, final a subset of
\* states, the transition relation closed over states and alphabet.
WellFormed(A) ==
    /\ A.root \in Elems(A.states)
    /\ A.final \subseteq Elems(A.states)
    /\ \A e \in A.transition :
          /\ e[1][1] \in Elems(A.states)
          /\ e[1][2] \in Elems(A.alphabet)
          /\ e[2] \in Elems(A.states)

\* C2: construction rejects malformed input: every step that produces an
\* automaton produces one with root in states, final a subset of states and
\* the transition relation closed over states and alphabet.
C2_ConstructionRejectsMalformed ==
    [][(fa = NoFA /\ fa' # NoFA) => WellFormed(Cur)']_vars

\* C3: every constructed automaton has a non-empty states set and a
\* non-empty alphabet.
C3_NonEmptyStatesAndAlphabet ==
    [][(fa = NoFA /\ fa' # NoFA) => (Cur.states # <<>> /\ Cur.alphabet # <<>>)']_vars

\* C4: an automaton is immutable once constructed: no step after the
\* construction changes its states, alphabet, transition relation, final set
\* or root.
C4_ImmutableOnceConstructed ==
    [][fa # NoFA => Cur' = Cur]_vars

PrintedForCur ==
    /\ Rendered
    /\ \E qs \in Orders(Elems(Cur.states)), qa \in Orders(Elems(Cur.alphabet)) :
          out = Table([Cur EXCEPT !.states = qs, !.alphabet = qa])

\* C6: rendering is idempotent and order-stable: a call of transition_table
\* on an automaton whose table has been printed before prints the same bytes
\* again.
C6_RenderIdempotent ==
    [][(transition_table /\ PrintedForCur) => Text(out') = Text(out)]_vars

\* C7: two states are equal iff their names are equal, in every comparison
\* the automaton performs: state == root, state in final, (state, symbol) in
\* transition.
C7_EqualIffSameName ==
    fa # NoFA =>
        \A s \in Elems(Cur.states) :
            /\ StateEq(s, Cur.root) <=> name[s] = name[Cur.root]
            /\ InFinal(s, Cur.final) <=> \E t \in Cur.final : name[t] = name[s]
            /\ \A c \in Elems(Cur.alphabet) :
                  HasKey(Cur.transition, <<s, c>>)
                      <=> \E e \in Cur.transition : name[e[1][1]] = name[s] /\ e[1][2] = c

\* C8: determinism: no constructed automaton holds two entries with the same
\* state name and the same symbol but different targets.
C8_Determinism ==
    fa # NoFA =>
        \A e, g \in Cur.transition :
            (name[e[1][1]] = name[g[1][1]] /\ e[1][2] = g[1][2]) => name[e[2]] = name[g[2]]

\* The rows that carry one of the markers M.
RowsMarked(M) == {i \in 1..Len(Cur.states) : out[i + 1][1] \in M}

\* C9: each state row starts with exactly the marker of the state's role:
\* "<->" iff root and final, "<- " iff final and not root, "-> " iff root and
\* not final, three spaces iff neither; with root in states exactly one row
\* carries a start marker, and the rows with an accepting marker are the rows
\* of the states in final.
C9_RoleMarkers ==
    Rendered =>
        /\ \A i \in 1..Len(Cur.states) :
              LET s == Cur.states[i]
                  m == out[i + 1][1]
                  isRoot == s = Cur.root
                  isFinal == s \in Cur.final
              IN  /\ m = "<->" <=> (isRoot /\ isFinal)
                  /\ m = "<- " <=> (~isRoot /\ isFinal)
                  /\ m = "-> " <=> (isRoot /\ ~isFinal)
                  /\ m = "   " <=> (~isRoot /\ ~isFinal)
        /\ Cur.root \in Elems(Cur.states) => Cardinality(RowsMarked({"-> ", "<->"})) = 1
        /\ {Cur.states[i] : i \in RowsMarked({"<- ", "<->"})} = Elems(Cur.states) \cap Cur.final

\* A printed table with a row of the root, not final, and a row of a final
\* state that is not the root.
C9_Witness ==
    /\ Rendered
    /\ \E i, k \in 1..Len(Cur.states) :
          /\ Cur.states[i] = Cur.root
          /\ out[i + 1][1] = "-> "
          /\ Cur.states[k] \in Cur.final
          /\ out[k + 1][1] = "<- "

\* C10: column alignment: the j-th cell of every state row is the cell for
\* the symbol the j-th column of the header row shows.
C10_ColumnAlignment ==
    Rendered =>
        \A j \in 1..(Len(out[1]) - 1) :
            \E c \in Elems(Cur.alphabet) :
                /\ out[1][j + 1] = " " \o c \o " "
                /\ \A i \in 1..Len(Cur.states) :
                      out[i + 1][j + 2] =
                          IF Defined(Cur, Cur.states[i], c)
                          THEN " " \o name[Target(Cur, Cur.states[i], c)] \o " "
                          ELSE " -- "

\* A printed table of two columns with a row whose two cells differ.
C10_Witness ==
    /\ Rendered
    /\ Len(out[1]) = 3
    /\ \E i \in 1..Len(Cur.states) : out[i + 1][3] # out[i + 1][4]

====
